---- MODULE Spec2Model ----
(***************************************************************************)
(* A model of the SMTP/LMTP client engine of mail-send:                    *)
(*   - SmtpClientBuilder::connect, the session establishment sequence      *)
(*     (src/src/smtp/builder.rs), specification Spec;                      *)
(*   - SmtpClient::read, read_many, cmd and cmds, the response reader and  *)
(*     the command pipeline (src/src/smtp/client.rs), specification        *)
(*     SpecClient;                                                         *)
(*   - write_message, the transparency procedure exercised by              *)
(*     test::transparency_procedure (src/src/smtp/client.rs), specification*)
(*     SpecEnc.                                                            *)
(* Time is counted in ticks; every await of the code is one action.        *)
(***************************************************************************)
EXTENDS Integers, Sequences, FiniteSets, TLC

VARIABLES
    \* ---- SmtpClientBuilder::connect ----
    cfg,          \* the builder: secure_transport, is_lmtp, say_ehlo, credentials
    pc,           \* the await connect is suspended at
    log,          \* the steps connect has run, in order, each with its outcome
    result,       \* what connect returned: "none" while running, "Ok", or the error
    greeting,     \* the outcome of the greeting read, NoOutcome before it
    response,     \* <<r>>: the EHLO/LHLO response r read before the upgrade; <<>> before it
    capabilities, \* <<r>>: the response r read by client.capabilities; <<>> before it
    authCaps,     \* <<r>>: the capabilities handed to authenticate; <<>> before it
    waited        \* ticks spent in the await connect is suspended at

VARIABLES
    \* ---- SmtpClient::read, read_many, cmd, cmds ----
    prog,         \* the calls still to be made on the session, in order
    cur,          \* the call being made, or the last one made
    cpc,          \* the await the call is suspended at; "idle" between calls
    cmdsLeft,     \* the commands of the call not yet written
    num_replies,  \* cmds: the commands written so far
    num,          \* read_many: the number of replies asked for
    parser,       \* the parse cursor (ResponseReceiver)
    responseAcc,  \* read_many: the replies accumulated so far
    results,      \* what each finished call returned, in call order
    iolog,        \* the transport operations of the call, in order
    timer,        \* ticks counted by the call's timeout(self.timeout, ..)
    sinceStart,   \* ticks since the call started
    issued,       \* commands written on the session so far
    wire,         \* bytes the peer has sent that the client has not read
    unanswered,   \* commands the peer has received and not answered
    peerClosed,   \* the peer has closed the stream
    stream        \* the replies the peer sent unasked when the session began

VARIABLES
    \* ---- write_message ----
    body,         \* the message handed to write_message
    output,       \* the bytes written to the stream
    epc           \* "start" before the call, "done" after it

cvars == <<cfg, pc, log, result, greeting, response, capabilities, authCaps, waited>>

svars == <<prog, cur, cpc, cmdsLeft, num_replies, num, parser, responseAcc, results,
           iolog, timer, sinceStart, issued, wire, unanswered, peerClosed, stream>>

evars == <<body, output, epc>>

vars == <<cvars, svars, evars>>

----------------------------------------------------------------------------
(* Bounds of the model *)

\* The configured timeout (SmtpClientBuilder::timeout), in ticks.
Timeout == 2
\* Ticks an await is followed for; larger than Timeout, so that an await
\* that no deadline covers is seen to outlast it.
MaxWait == 3

\* Replies the peer sends unasked before the first call (the greeting, or the
\* replies a test transport holds).
MaxReplies == 2
\* Commands in one cmds batch.
MaxBatch == 2
\* Calls made on one session.
MaxCalls == 1
\* Bytes of a message body handed to write_message.
MaxBody == 6
\* Calls made one after the other on a session that is kept in use.
MaxSeq == 2

----------------------------------------------------------------------------
(* The states of the parts a specification leaves alone *)

\* No call: the session is idle.
NoCall == [op |-> "none", num |-> 0, cmds |-> <<>>]

\* ResponseReceiver::default(), and the cursor after parser.reset().
ParserDefault == [st |-> "code", code |-> "", text |-> <<>>]

ClientIdle ==
    /\ prog = <<>>
    /\ cur = NoCall
    /\ cpc = "idle"
    /\ cmdsLeft = <<>>
    /\ num_replies = 0
    /\ num = 0
    /\ parser = ParserDefault
    /\ responseAcc = <<>>
    /\ results = <<>>
    /\ iolog = <<>>
    /\ timer = 0
    /\ sinceStart = 0
    /\ issued = 0
    /\ wire = <<>>
    /\ unanswered = <<>>
    /\ peerClosed = FALSE
    /\ stream = <<>>

EncIdle ==
    /\ body = <<>>
    /\ output = <<>>
    /\ epc = "idle"

ConnectIdle ==
    /\ cfg = [secure_transport |-> "Off", is_lmtp |-> FALSE,
              say_ehlo |-> FALSE, credentials |-> FALSE]
    /\ pc = "idle"
    /\ log = <<>>
    /\ result = "none"
    /\ greeting = [ok |-> FALSE, val |-> "none", err |-> "none"]
    /\ response = <<>>
    /\ capabilities = <<>>
    /\ authCaps = <<>>
    /\ waited = 0

----------------------------------------------------------------------------
(* SmtpClientBuilder::connect *)

EXT_START_TLS == "STARTTLS"

SecureTransports == {"Off", "On", "StartTls"}

Configs ==
    [secure_transport : SecureTransports, is_lmtp : BOOLEAN,
     say_ehlo : BOOLEAN, credentials : BOOLEAN]

\* What the peer may announce in its reply to EHLO/LHLO.
CapabilitySets == SUBSET {EXT_START_TLS, "AUTH"}

\* Steps whose implementation wraps its network operations in
\* timeout(self.timeout, ..): the commands ehlo, lhlo and authenticate send.
TimedSteps == {"ehlo_starttls", "capabilities", "authenticate"}

Ok(v) == [ok |-> TRUE, val |-> v, err |-> "none"]
Err(e) == [ok |-> FALSE, val |-> "none", err |-> e]
NoOutcome == [ok |-> FALSE, val |-> "none", err |-> "none"]

\* The outcomes of Socket::builder().connect()? followed by opened().await?.
ConnectOutcomes == {Ok("socket"), Err("Io")}

\* The outcomes of client.read(): a reply of some class, a transport error,
\* or an unparseable reply (zero bytes or a grammar error).
ReadOutcomes ==
    {Ok(c) : c \in {"2", "3", "4", "5"}} \cup {Err("Io"), Err("UnparseableReply")}

\* The outcomes of ehlo/lhlo after waiting w ticks: the capabilities of a
\* positive reply, or an error; Error::Timeout exactly when the deadline passed.
EhloOutcomes(w) ==
    IF w >= Timeout THEN {Err("Timeout")}
    ELSE {Ok(s) : s \in CapabilitySets}
             \cup {Err("Io"), Err("UnparseableReply"), Err("UnexpectedReply")}

\* The outcomes of authenticate after waiting w ticks.
AuthOutcomes(w) ==
    IF w >= Timeout THEN {Err("Timeout")}
    ELSE {Ok("authenticated"), Err("Io"), Err("AuthenticationFailed"),
          Err("UnsupportedAuthMechanism")}

\* The outcomes of client.start_tls(): stream.start_tls(), then opened().await?.
StartTlsOutcomes == {Ok("tls"), Err("Io")}

\* Reply::assert_positive_completion: the status code's leading digit is 2.
AssertPositiveCompletion(o) ==
    IF ~o.ok THEN o
    ELSE IF o.val = "2" THEN o ELSE Err("UnexpectedReply")

\* Where connect goes next, or what it returns.
Fail(e) == [pc |-> "done", result |-> e]
Goto(p) == [pc |-> p, result |-> "none"]
Return == [pc |-> "done", result |-> "Ok"]

TryIgnoringErrors(o, next) == next

\* The ? operator: an Err returns from connect at once.
Try(o, next) == IF o.ok THEN next ELSE Fail(o.err)

SayEhloUnlessUpgraded(c) == c.say_ehlo /\ c.secure_transport # "StartTls"

\* if self.say_ehlo
SayEhlo(c) == c.say_ehlo

StartTlsAlwaysAdvertised(r) == TRUE

\* response.has_capability(EXT_START_TLS)
StartTlsAdvertised(r) == EXT_START_TLS \in r

GreetingAnyReply(o) == o

\* client.read().await?.assert_positive_completion()?
GreetingChecked(o) == AssertPositiveCompletion(o)

\* The EHLO or LHLO command, by protocol mode.
GreetingCommand(c) == IF c.is_lmtp THEN "LHLO" ELSE "EHLO"

\* Lines 96-105: the capabilities phase, or Ok(client).
AfterConnected(c) == IF SayEhlo(c) THEN Goto("capabilities") ELSE Return

\* Lines 79-92: the upgrade phase when StartTls is configured.
AfterGreeting(c) ==
    IF c.secure_transport = "StartTls" THEN Goto("ehlo_starttls")
    ELSE AfterConnected(c)

\* Lines 87-91: upgrade only when the peer advertised STARTTLS.
AfterEhloStartTls(r) ==
    IF StartTlsAdvertised(r) THEN Goto("start_tls") ELSE Fail("MissingStartTls")

\* Lines 100-105: authenticate when credentials are configured.
AfterCapabilities(c) == IF c.credentials THEN Goto("authenticate") ELSE Return

Entry(step, o) == [step |-> step, ok |-> o.ok, err |-> o.err]

Init ==
    /\ cfg \in Configs
    /\ pc = "connect"
    /\ log = <<>>
    /\ result = "none"
    /\ greeting = NoOutcome
    /\ response = <<>>
    /\ capabilities = <<>>
    /\ authCaps = <<>>
    /\ waited = 0
    /\ ClientIdle
    /\ EncIdle

\* SmtpClient::connect(hostname, port, secure_transport, timeout).await?
Connect ==
    /\ pc = "connect"
    /\ \E o \in ConnectOutcomes :
        LET t == Try(o, Goto("greeting")) IN
        /\ log' = Append(log, Entry("connect", o))
        /\ pc' = t.pc
        /\ result' = t.result
    /\ waited' = 0
    /\ UNCHANGED <<cfg, greeting, response, capabilities, authCaps>>
    /\ UNCHANGED <<svars, evars>>

\* client.read().await?.assert_positive_completion()?
GreetingRead ==
    /\ pc = "greeting"
    /\ \E r \in ReadOutcomes :
        LET o == GreetingChecked(r)
            t == Try(o, AfterGreeting(cfg)) IN
        /\ greeting' = r
        /\ log' = Append(log, Entry("greeting", o))
        /\ pc' = t.pc
        /\ result' = t.result
    /\ waited' = 0
    /\ UNCHANGED <<cfg, response, capabilities, authCaps>>
    /\ UNCHANGED <<svars, evars>>

\* client.ehlo(&self.local_host).await? or client.lhlo(..).await?, and the
\* has_capability check on its response.
EhloStartTls ==
    /\ pc = "ehlo_starttls"
    /\ \E o \in EhloOutcomes(waited) :
        LET t == Try(o, IF o.ok THEN AfterEhloStartTls(o.val) ELSE Fail(o.err)) IN
        /\ response' = IF o.ok THEN <<o.val>> ELSE response
        /\ log' = Append(log, Entry(GreetingCommand(cfg), o))
        /\ pc' = t.pc
        /\ result' = t.result
    /\ waited' = 0
    /\ UNCHANGED <<cfg, greeting, capabilities, authCaps>>
    /\ UNCHANGED <<svars, evars>>

\* client = client.start_tls().await?
StartTls ==
    /\ pc = "start_tls"
    /\ \E o \in StartTlsOutcomes :
        LET t == Try(o, AfterConnected(cfg)) IN
        /\ log' = Append(log, Entry("start_tls", o))
        /\ pc' = t.pc
        /\ result' = t.result
    /\ waited' = 0
    /\ UNCHANGED <<cfg, greeting, response, capabilities, authCaps>>
    /\ UNCHANGED <<svars, evars>>

\* client.capabilities(&self.local_host, self.is_lmtp).await?
Capabilities ==
    /\ pc = "capabilities"
    /\ \E o \in EhloOutcomes(waited) :
        LET t == Try(o, AfterCapabilities(cfg)) IN
        /\ capabilities' = IF o.ok THEN <<o.val>> ELSE capabilities
        /\ log' = Append(log, Entry(GreetingCommand(cfg), o))
        /\ pc' = t.pc
        /\ result' = t.result
    /\ waited' = 0
    /\ UNCHANGED <<cfg, greeting, response, authCaps>>
    /\ UNCHANGED <<svars, evars>>

AuthPreUpgradeResponse == response

\* &capabilities: the reply of client.capabilities(..) two lines above.
AuthCapabilities == capabilities

\* client.authenticate(&credentials, &capabilities).await?, then Ok(client)
Authenticate ==
    /\ pc = "authenticate"
    /\ \E o \in AuthOutcomes(waited) :
        LET t == Try(o, Return) IN
        /\ authCaps' = AuthCapabilities
        /\ log' = Append(log, Entry("AUTH", o))
        /\ pc' = t.pc
        /\ result' = t.result
    /\ waited' = 0
    /\ UNCHANGED <<cfg, greeting, response, capabilities>>
    /\ UNCHANGED <<svars, evars>>

\* A tick passes while connect is suspended.  The steps in TimedSteps give
\* up at their deadline; nothing bounds the other awaits.
Tick ==
    /\ pc # "done"
    /\ waited < MaxWait
    /\ pc \in TimedSteps => waited < Timeout
    /\ waited' = waited + 1
    /\ UNCHANGED <<cfg, pc, log, result, greeting, response, capabilities, authCaps>>
    /\ UNCHANGED <<svars, evars>>

Next ==
    \/ Connect
    \/ GreetingRead
    \/ EhloStartTls
    \/ StartTls
    \/ Capabilities
    \/ Authenticate
    \/ Tick

Spec == Init /\ [][Next]_vars

----------------------------------------------------------------------------
(* Properties of SmtpClientBuilder::connect *)

LogIndex == 1..Len(log)
IsGreetingCommand(e) == e.step \in {"EHLO", "LHLO"}
\* Steps that write a command to the transport or start the upgrade handshake.
IsCommand(e) == e.step \in {"EHLO", "LHLO", "AUTH", "start_tls"}
StepOk(name) == \E i \in LogIndex : log[i].step = name /\ log[i].ok
Upgraded == StepOk("start_tls")
\* A greeting command succeeded after the upgrade and its reply is stored.
Reannounced ==
    /\ capabilities # <<>>
    /\ \E i, j \in LogIndex :
        /\ i < j
        /\ log[i].step = "start_tls" /\ log[i].ok
        /\ IsGreetingCommand(log[j]) /\ log[j].ok
GreetingAccepted == greeting.ok /\ greeting.val = "2"

\* C1: with SecureTransport::StartTls, when the EHLO/LHLO reply read before
\* the upgrade does not advertise STARTTLS, connect has failed with
\* Error::MissingStartTls and start_tls was not invoked.
C1_MissingStartTls ==
    (cfg.secure_transport = "StartTls" /\ response # <<>>
        /\ EXT_START_TLS \notin response[1])
    => /\ pc = "done"
       /\ result = "MissingStartTls"
       /\ \A i \in LogIndex : log[i].step # "start_tls"

C1_Witness ==
    /\ cfg.secure_transport = "StartTls"
    /\ response # <<>>
    /\ EXT_START_TLS \notin response[1]
    /\ result = "MissingStartTls"

\* C2 as stated: whenever connect returns the session after an upgrade, a
\* greeting command was sent again after the upgrade and its capability
\* reply received, for every configuration (say_ehlo = false included).
C2_ReannounceAlways == (result = "Ok" /\ Upgraded) => Reannounced

\* C2 amended: whenever connect, configured with say_ehlo = true, returns the
\* session after an upgrade, a greeting command was sent again after the
\* upgrade and its capability reply received; and after an upgrade with
\* say_ehlo = true connect is either about to re-announce, has re-announced,
\* or has failed.
C2_ReannounceWhenSayEhlo ==
    (cfg.say_ehlo /\ Upgraded) =>
        \/ pc = "capabilities" /\ result = "none"
        \/ Reannounced
        \/ pc = "done" /\ result \notin {"none", "Ok"}

C2_Witness == result = "Ok" /\ Upgraded /\ cfg.say_ehlo /\ Reannounced

\* C3: whenever credentials are configured and connect returns Ok, an
\* authentication exchange has run and succeeded, for every configuration
\* (say_ehlo = false included).
C3_CredentialsAlwaysUsed ==
    (result = "Ok" /\ cfg.credentials) => (StepOk("AUTH") /\ authCaps # <<>>)

\* C4: connect returns a session only if the greeting reply is
\* positive-completion; any other greeting outcome makes connect fail; and
\* no command is written and no upgrade started before the greeting has
\* been read and accepted.
C4_GreetingFirst ==
    /\ result = "Ok" => GreetingAccepted
    /\ (greeting # NoOutcome /\ ~GreetingAccepted)
           => (pc = "done" /\ result \notin {"none", "Ok"})
    /\ \A i \in LogIndex : IsCommand(log[i]) =>
           /\ GreetingAccepted
           /\ \E j \in 1..(i - 1) : log[j].step = "greeting" /\ log[j].ok

C4_Witness ==
    /\ greeting.ok
    /\ greeting.val = "5"
    /\ pc = "done"
    /\ result = "UnexpectedReply"
    /\ \A i \in LogIndex : ~IsCommand(log[i])

\* C5: the greeting read is bounded by the configured timeout: connect is
\* never still suspended in it once more than the timeout has passed.
C5_GreetingReadBounded == pc = "greeting" => waited <= Timeout

\* C9: a failed step is the last step connect runs and connect returns its
\* error; connect returns exactly when it is done; and it returns Ok only
\* after every step its configuration selects has succeeded (say_ehlo
\* selects the capability announce and, with credentials, authentication).
C9_FailureAborts ==
    /\ \A i \in LogIndex : ~log[i].ok =>
           (i = Len(log) /\ pc = "done" /\ result = log[i].err)
    /\ (pc = "done") <=> (result # "none")
    /\ result = "Ok" =>
           /\ StepOk("connect")
           /\ StepOk("greeting")
           /\ cfg.secure_transport = "StartTls" =>
                  /\ response # <<>>
                  /\ StepOk("start_tls")
           /\ cfg.say_ehlo =>
                  /\ capabilities # <<>>
                  /\ cfg.credentials => StepOk("AUTH")
           /\ \A i \in LogIndex : log[i].ok

C9_Witness ==
    /\ Len(log) = 4
    /\ log[4].step = "start_tls"
    /\ ~log[4].ok
    /\ pc = "done"
    /\ result = "Io"

\* C19: with SecureTransport::StartTls, authenticate is started only after
\* the upgrade has succeeded and a greeting command has been answered over
\* the upgraded transport, the capability set handed to authenticate is the
\* stored reply of that greeting command, and start_tls runs at most once.
C19_AuthAfterUpgrade ==
    cfg.secure_transport = "StartTls" =>
        /\ pc = "authenticate" => (Upgraded /\ Reannounced)
        /\ \A i \in LogIndex : log[i].step = "AUTH" =>
              \E j, k \in LogIndex :
                  /\ j < k /\ k < i
                  /\ log[j].step = "start_tls" /\ log[j].ok
                  /\ IsGreetingCommand(log[k]) /\ log[k].ok
        /\ authCaps # <<>> => authCaps = capabilities
        /\ Cardinality({i \in LogIndex : log[i].step = "start_tls"}) <= 1

C19_Witness ==
    /\ cfg.secure_transport = "StartTls"
    /\ result = "Ok"
    /\ StepOk("AUTH")
    /\ authCaps # <<>>
    /\ authCaps # response

----------------------------------------------------------------------------
(* SmtpClient::read, read_many, cmd, cmds *)

\* let mut buf = vec![0u8; 1024]
BufSize == 1024

Min(a, b) == IF a < b THEN a ELSE b

\* Bytes: the status digits "2" and "5", the end of a reply line LF, and
\* any other byte, which is reply text.
LF == "LF"
Digits == {"2", "5"}

\* A reply: its status digit and its text.  On the wire: digit, text, LF.
Reply(code, text) == [code |-> code, text |-> text]
Encode(r) == <<r.code>> \o r.text \o <<LF>>

RECURSIVE EncodeAll(_)
EncodeAll(rs) == IF rs = <<>> THEN <<>> ELSE Encode(Head(rs)) \o EncodeAll(Tail(rs))

\* What the peer may send unasked: two replies, and a line that is no reply
\* (its first byte is no status digit).
Unasked == {Reply("2", <<>>), Reply("5", <<"a">>), Reply("x", <<>>)}
IsReply(r) == r.code \in Digits
Streams == UNION {[1..n -> Unasked] : n \in 0..MaxReplies}

\* The peer's reply to the k-th command of the session.
ReplyFor(k) == Reply("2", <<ToString(k)>>)

\* ResponseReceiver::parse(&mut iter): consumes bytes of iter until a reply is
\* complete (Ok), a byte breaks the grammar (Error) or iter is exhausted
\* (NeedsMoreData); the cursor keeps what was parsed so far.
RECURSIVE Parse(_, _)
Parse(p, iter) ==
    IF iter = <<>> THEN [status |-> "NeedsMoreData", parser |-> p, rest |-> <<>>]
    ELSE IF p.st = "code" THEN
        IF Head(iter) \in Digits
        THEN Parse([st |-> "text", code |-> Head(iter), text |-> <<>>], Tail(iter))
        ELSE [status |-> "Error", parser |-> p, rest |-> Tail(iter)]
    ELSE IF p.st = "text" THEN
        IF Head(iter) = LF
        THEN [status |-> "Ok", parser |-> [p EXCEPT !.st = "done"], rest |-> Tail(iter)]
        ELSE Parse([p EXCEPT !.text = Append(@, Head(iter))], Tail(iter))
    ELSE [status |-> "Error", parser |-> p, rest |-> Tail(iter)]

\* The reply a completed parse holds.
ReplyOf(p) == Reply(p.code, p.text)

InnerLoopDropsRemainder(p, resp, iter, n) ==
    LET r == Parse(p, iter) IN
    IF r.status = "Ok" THEN
        LET pushed == Append(resp, ReplyOf(r.parser)) IN
        IF Len(pushed) # n
        THEN [status |-> "More", parser |-> ParserDefault, response |-> pushed]
        ELSE [status |-> "Done", parser |-> r.parser, response |-> pushed]
    ELSE IF r.status = "NeedsMoreData"
    THEN [status |-> "More", parser |-> r.parser, response |-> resp]
    ELSE [status |-> "Error", parser |-> r.parser, response |-> resp]

\* The inner loop of read_many over one chunk: every reply completed in the
\* chunk is pushed; the cursor is reset while fewer than num replies are
\* held; the loop leaves for the next chunk on NeedsMoreData.
RECURSIVE InnerLoop(_, _, _, _)
InnerLoop(p, resp, iter, n) ==
    LET r == Parse(p, iter) IN
    IF r.status = "Ok" THEN
        LET pushed == Append(resp, ReplyOf(r.parser)) IN
        IF Len(pushed) # n
        THEN InnerLoop(ParserDefault, pushed, r.rest, n)
        ELSE [status |-> "Done", parser |-> r.parser, response |-> pushed]
    ELSE IF r.status = "NeedsMoreData"
    THEN [status |-> "More", parser |-> r.parser, response |-> resp]
    ELSE [status |-> "Error", parser |-> r.parser, response |-> resp]

\* cmd and cmds run inside timeout(self.timeout, ..); read and read_many do not.
Timed(c) == c.op \in {"cmd", "cmds"}

\* The wrapped future runs only while its deadline has not passed.
CanStep == Timed(cur) => timer < Timeout

TimerRestarted(t) == 0

\* One timeout(self.timeout, ..) wraps the whole async block: its timer runs
\* on across the writes, the flush and the reads.
TimerAfterStep(t) == t

FlushAfterEachWrite(left) == "flush"

\* for cmd in cmds { write_all(cmd) }: the next write, or the flush after
\* the last one.
AfterWrite(left) == IF left = <<>> THEN "flush" ELSE "write"

CountedOnce(n) == 1

\* num_replies += 1
Counted(n) == n + 1

\* The first await of a call.
FirstAwait(c) ==
    IF c.op \in {"read", "read_many"} THEN c.op
    ELSE IF c.len = 0 THEN "flush" ELSE "write"

ParserKept(p) == p

\* let mut parser = ResponseReceiver::default(): the cursor is a local of
\* read and of read_many, made anew by every call.
NewParser(p) == ParserDefault

ZeroBytesReturnsHeld(resp) == [res |-> "Ok", replies |-> resp]

\* br = 0: return Err(crate::Error::UnparseableReply); the replies held in
\* response are dropped with it.
ZeroBytes(resp) == [res |-> "UnparseableReply", replies |-> <<>>]

MapErrAny(inner) == IF inner = "Ok" THEN "Ok" ELSE "Timeout"

\* timeout(..).await.map_err(|_| crate::Error::Timeout)?: Elapsed becomes
\* Error::Timeout, the result of the wrapped block passes as it is.
MapErr(inner) == IF inner = "Elapsed" THEN "Timeout" ELSE inner

\* The call returns with replies: inner is the result of its body (or
\* Elapsed), res what the caller gets.
Finish(inner, replies) ==
    /\ results' = Append(results,
            [op |-> cur.op, num |-> num, cmds |-> cur.cmds, inner |-> inner,
             res |-> IF Timed(cur) THEN MapErr(inner) ELSE inner,
             replies |-> replies,
             at |-> sinceStart, parsed |-> Len(responseAcc)])
    /\ cpc' = "idle"

ReadCall == [op |-> "read", num |-> 0, len |-> 0]
ReadManyCall(n) == [op |-> "read_many", num |-> n, len |-> 0]
CmdCall == [op |-> "cmd", num |-> 0, len |-> 1]
CmdsCall(n) == [op |-> "cmds", num |-> 0, len |-> n]

\* Reading n replies: one read_many(n), or n calls of read.
ReaderPrograms(n) == {<<ReadManyCall(n)>>, [i \in 1..n |-> ReadCall]}

PipelineCalls == {CmdCall} \cup {CmdsCall(n) : n \in 0..MaxBatch}
PipelinePrograms == UNION {[1..n -> PipelineCalls] : n \in 1..MaxCalls}

InitClient ==
    /\ ConnectIdle
    /\ EncIdle
    /\ \/ /\ stream \in Streams
          /\ wire = EncodeAll(stream)
          /\ \E n \in 0..MaxReplies : prog \in ReaderPrograms(n)
       \/ /\ stream = <<>>
          /\ wire = <<>>
          /\ prog \in PipelinePrograms
    /\ cur = NoCall
    /\ cpc = "idle"
    /\ cmdsLeft = <<>>
    /\ num_replies = 0
    /\ num = 0
    /\ parser = ParserDefault
    /\ responseAcc = <<>>
    /\ results = <<>>
    /\ iolog = <<>>
    /\ timer = 0
    /\ sinceStart = 0
    /\ issued = 0
    /\ unanswered = <<>>
    /\ peerClosed = FALSE

\* A session with a peer that sends nothing unasked: up to MaxSeq calls, one
\* after the other, of read, cmd, cmds of no command and cmds of a full batch.
SessionCalls == {ReadCall, CmdCall, CmdsCall(0), CmdsCall(MaxBatch)}
SessionPrograms == UNION {[1..n -> SessionCalls] : n \in 1..MaxSeq}

InitSession ==
    /\ ConnectIdle
    /\ EncIdle
    /\ stream = <<>>
    /\ wire = <<>>
    /\ prog \in SessionPrograms
    /\ cur = NoCall
    /\ cpc = "idle"
    /\ cmdsLeft = <<>>
    /\ num_replies = 0
    /\ num = 0
    /\ parser = ParserDefault
    /\ responseAcc = <<>>
    /\ results = <<>>
    /\ iolog = <<>>
    /\ timer = 0
    /\ sinceStart = 0
    /\ issued = 0
    /\ unanswered = <<>>
    /\ peerClosed = FALSE

\* The caller makes the next call on the session.
StartCall ==
    /\ cpc = "idle"
    /\ prog # <<>>
    /\ LET c == Head(prog)
           ids == [i \in 1..c.len |-> issued + i] IN
        /\ cur' = [op |-> c.op, num |-> c.num, cmds |-> ids]
        /\ cmdsLeft' = ids
        /\ cpc' = FirstAwait(c)
        /\ num' = c.num
    /\ prog' = Tail(prog)
    /\ num_replies' = 0
    /\ parser' = NewParser(parser)
    /\ responseAcc' = <<>>
    /\ iolog' = <<>>
    /\ timer' = 0
    /\ sinceStart' = 0
    /\ UNCHANGED <<results, issued, wire, unanswered, peerClosed, stream>>
    /\ UNCHANGED <<cvars, evars>>

\* self.stream.write_all(cmd.as_ref()).await?; num_replies += 1
Write ==
    /\ cpc = "write"
    /\ CanStep
    /\ iolog' = Append(iolog, [k |-> "write", c |-> Head(cmdsLeft)])
    /\ unanswered' = Append(unanswered, Head(cmdsLeft))
    /\ cmdsLeft' = Tail(cmdsLeft)
    /\ num_replies' = IF cur.op = "cmds" THEN Counted(num_replies) ELSE num_replies
    /\ issued' = issued + 1
    /\ cpc' = AfterWrite(Tail(cmdsLeft))
    /\ timer' = TimerAfterStep(timer)
    /\ UNCHANGED <<prog, cur, num, parser, responseAcc, results, sinceStart,
                   wire, peerClosed, stream>>
    /\ UNCHANGED <<cvars, evars>>

\* self.stream.flush().await?, then self.read() or self.read_many(num_replies)
Flush ==
    /\ cpc = "flush"
    /\ CanStep
    /\ iolog' = Append(iolog, [k |-> "flush", c |-> 0])
    /\ cpc' = IF cur.op = "cmd" THEN "read" ELSE "read_many"
    /\ num' = IF cur.op = "cmds" THEN num_replies ELSE num
    /\ parser' = NewParser(parser)
    /\ responseAcc' = <<>>
    /\ timer' = TimerAfterStep(timer)
    /\ UNCHANGED <<prog, cur, cmdsLeft, num_replies, results, sinceStart, issued,
                   wire, unanswered, peerClosed, stream>>
    /\ UNCHANGED <<cvars, evars>>

\* One turn of the loop of read(): a chunk of br > 0 bytes is parsed; the
\* bytes of the chunk that follow a completed reply are dropped with buf.
\* br = 0 (the peer closed) is an unparseable reply.
Read ==
    /\ cpc = "read"
    /\ CanStep
    /\ iolog' = Append(iolog, [k |-> "read", c |-> 0])
    /\ \/ /\ wire # <<>>
          /\ \E br \in 1..Min(Len(wire), BufSize) :
                LET r == Parse(parser, SubSeq(wire, 1, br)) IN
                /\ wire' = SubSeq(wire, br + 1, Len(wire))
                /\ parser' = r.parser
                /\ IF r.status = "Ok" THEN Finish("Ok", <<ReplyOf(r.parser)>>)
                   ELSE IF r.status = "NeedsMoreData"
                        THEN UNCHANGED <<results, cpc>>
                   ELSE Finish("UnparseableReply", <<>>)
       \/ /\ wire = <<>>
          /\ peerClosed
          /\ Finish(ZeroBytes(<<>>).res, ZeroBytes(<<>>).replies)
          /\ UNCHANGED <<wire, parser>>
    /\ timer' = TimerAfterStep(timer)
    /\ UNCHANGED <<prog, cur, cmdsLeft, num_replies, num, responseAcc, sinceStart,
                   issued, unanswered, peerClosed, stream>>
    /\ UNCHANGED <<cvars, evars>>

\* One turn of the outer loop of read_many(num).
ReadMany ==
    /\ cpc = "read_many"
    /\ CanStep
    /\ iolog' = Append(iolog, [k |-> "read", c |-> 0])
    /\ \/ /\ wire # <<>>
          /\ \E br \in 1..Min(Len(wire), BufSize) :
                LET r == InnerLoop(parser, responseAcc, SubSeq(wire, 1, br), num) IN
                /\ wire' = SubSeq(wire, br + 1, Len(wire))
                /\ parser' = r.parser
                /\ responseAcc' = r.response
                /\ IF r.status = "Done" THEN Finish("Ok", r.response)
                   ELSE IF r.status = "More" THEN UNCHANGED <<results, cpc>>
                   ELSE Finish("UnparseableReply", <<>>)
       \/ /\ wire = <<>>
          /\ peerClosed
          /\ Finish(ZeroBytes(responseAcc).res, ZeroBytes(responseAcc).replies)
          /\ UNCHANGED <<wire, parser, responseAcc>>
    /\ timer' = TimerAfterStep(timer)
    /\ UNCHANGED <<prog, cur, cmdsLeft, num_replies, num, sinceStart,
                   issued, unanswered, peerClosed, stream>>
    /\ UNCHANGED <<cvars, evars>>

\* A write, flush or read of the stream fails: the ? returns the error.
TransportError ==
    /\ cpc \in {"write", "flush", "read", "read_many"}
    /\ CanStep
    /\ Finish("Io", <<>>)
    /\ UNCHANGED <<prog, cur, cmdsLeft, num_replies, num, parser, responseAcc, iolog,
                   timer, sinceStart, issued, wire, unanswered, peerClosed, stream>>
    /\ UNCHANGED <<cvars, evars>>

\* timeout(self.timeout, ..) elapses: .map_err(|_| crate::Error::Timeout)?
TimeoutFire ==
    /\ cpc # "idle"
    /\ Timed(cur)
    /\ timer >= Timeout
    /\ Finish("Elapsed", <<>>)
    /\ UNCHANGED <<prog, cur, cmdsLeft, num_replies, num, parser, responseAcc, iolog,
                   timer, sinceStart, issued, wire, unanswered, peerClosed, stream>>
    /\ UNCHANGED <<cvars, evars>>

\* A tick passes while a call is suspended.
ClientTick ==
    /\ cpc # "idle"
    /\ sinceStart < MaxWait
    /\ CanStep
    /\ timer' = timer + 1
    /\ sinceStart' = sinceStart + 1
    /\ UNCHANGED <<prog, cur, cpc, cmdsLeft, num_replies, num, parser, responseAcc,
                   results, iolog, issued, wire, unanswered, peerClosed, stream>>
    /\ UNCHANGED <<cvars, evars>>

\* The peer answers the oldest command it has not answered.
PeerAnswer ==
    /\ unanswered # <<>>
    /\ ~peerClosed
    /\ wire' = wire \o Encode(ReplyFor(Head(unanswered)))
    /\ unanswered' = Tail(unanswered)
    /\ UNCHANGED <<prog, cur, cpc, cmdsLeft, num_replies, num, parser, responseAcc,
                   results, iolog, timer, sinceStart, issued, peerClosed, stream>>
    /\ UNCHANGED <<cvars, evars>>

\* The peer closes the stream; what it sent before can still be read.
PeerClose ==
    /\ ~peerClosed
    /\ peerClosed' = TRUE
    /\ UNCHANGED <<prog, cur, cpc, cmdsLeft, num_replies, num, parser, responseAcc,
                   results, iolog, timer, sinceStart, issued, wire, unanswered, stream>>
    /\ UNCHANGED <<cvars, evars>>

NextClient ==
    \/ StartCall
    \/ Write
    \/ Flush
    \/ Read
    \/ ReadMany
    \/ TransportError
    \/ TimeoutFire
    \/ ClientTick
    \/ PeerAnswer
    \/ PeerClose

SpecClient == InitClient /\ [][NextClient]_vars

\* The session of a peer that answers every command and stays connected,
\* over a transport that does not fail.
NextSession ==
    \/ StartCall
    \/ Write
    \/ Flush
    \/ Read
    \/ ReadMany
    \/ TimeoutFire
    \/ ClientTick
    \/ PeerAnswer

SpecSession == InitSession /\ [][NextSession]_vars

----------------------------------------------------------------------------
(* Properties of the response reader and the command pipeline *)

ResultIndex == 1..Len(results)
WriteCount == Cardinality({i \in 1..Len(iolog) : iolog[i].k = "write"})
AllReplies(rs) == \A i \in 1..Len(rs) : IsReply(rs[i])

\* The replies the finished calls returned, in call order.
RECURSIVE Collected(_)
Collected(rs) == IF rs = <<>> THEN <<>> ELSE Head(rs).replies \o Collected(Tail(rs))

\* The peer sent n >= 1 replies unasked, the caller asked for n replies (by
\* one read_many(n) when many, by n calls of read otherwise), every call has
\* returned and the transport did not fail.
ReadAll(many) ==
    /\ Len(stream) >= 1
    /\ AllReplies(stream)
    /\ prog = <<>>
    /\ cpc = "idle"
    /\ results # <<>>
    /\ \A i \in ResultIndex : results[i].res # "Io"
    /\ IF many THEN results[1].op = "read_many" /\ cur.num = Len(stream)
       ELSE results[1].op = "read" /\ Len(results) = Len(stream)

ReturnedAsSent ==
    /\ \A i \in ResultIndex : results[i].res = "Ok"
    /\ Collected(results) = stream

\* read_many(n) returns the n replies the peer sent, in send order, however
\* the bytes are split into chunks.
ReadManyReturnsSent == ReadAll(TRUE) => ReturnedAsSent

\* C6: one deadline covers a whole cmd or cmds call: the call is never
\* running once more than the timeout has passed since it started, a call
\* that has not returned when the timeout has passed returns Error::Timeout,
\* and a call that returned Error::Timeout returned no reply.
C6_SingleDeadline ==
    /\ (cpc # "idle" /\ Timed(cur)) => sinceStart <= Timeout
    /\ \A i \in ResultIndex : Timed(results[i]) =>
          /\ results[i].at >= Timeout => results[i].res = "Timeout"
          /\ results[i].res = "Timeout" =>
                (results[i].replies = <<>> /\ results[i].at = Timeout)

C6_Witness ==
    \E i \in ResultIndex :
        /\ results[i].op = "cmds"
        /\ results[i].res = "Timeout"
        /\ results[i].parsed >= 1
        /\ results[i].replies = <<>>

\* C7: read_many(n) on a transport that delivers n replies in arbitrary
\* chunks returns the n replies in send order, and so do n calls of read()
\* on that transport.
C7_ReadManyEqualsReads ==
    /\ ReadAll(TRUE) => ReturnedAsSent
    /\ ReadAll(FALSE) => ReturnedAsSent

\* C8: cmds writes the commands of the batch in order with no read between
\* two writes, flushes once after the last write and only then reads, asking
\* read_many for as many replies as it wrote commands.
C8_PipelineOrder ==
    cur.op = "cmds" =>
        /\ WriteCount <= Len(cur.cmds)
        /\ \A i \in 1..WriteCount : iolog[i] = [k |-> "write", c |-> cur.cmds[i]]
        /\ Len(iolog) > WriteCount =>
              /\ WriteCount = Len(cur.cmds)
              /\ iolog[WriteCount + 1].k = "flush"
              /\ \A i \in (WriteCount + 2)..Len(iolog) : iolog[i].k = "read"
        /\ cpc = "read_many" =>
              /\ num = Len(cur.cmds)
              /\ Len(iolog) > WriteCount
        /\ (cpc = "idle" /\ results[Len(results)].res = "Ok") =>
              Len(results[Len(results)].replies) = Len(cur.cmds)

C8_Witness ==
    /\ cur.op = "cmds"
    /\ Len(cur.cmds) = 2
    /\ cpc = "idle"
    /\ results[Len(results)].res = "Ok"
    /\ \E i \in 1..Len(iolog) : iolog[i].k = "read"

\* C14 (as stated): read_many(n) awaits a transport read only while it holds
\* fewer than n replies, never holds more than n, and a call that returned
\* Ok returned exactly n replies; for every n >= 0.
C14_StopsAtN ==
    /\ cpc = "read_many" => Len(responseAcc) < num
    /\ cur.op \in {"read_many", "cmds"} => Len(responseAcc) <= num
    /\ \A i \in ResultIndex :
          (results[i].op \in {"read_many", "cmds"} /\ results[i].res = "Ok")
              => Len(results[i].replies) = results[i].num

\* read_many(n) with n >= 1 does stop at n.
ReadManyStopsAtPositiveN ==
    num >= 1 =>
        /\ cpc = "read_many" => Len(responseAcc) < num
        /\ cur.op \in {"read_many", "cmds"} => Len(responseAcc) <= num

\* The bytes of a reply that the cursor has parsed so far.
Pending(p) == IF p.st = "text" THEN <<p.code>> \o p.text ELSE <<>>

\* C15: while read_many waits for the next chunk, every byte of the chunks
\* it has read is in a reply it holds or in the cursor (nothing of a chunk
\* is left unparsed or dropped), and when the peer sent n replies
\* read_many(n) returns them in send order under every chunking.
C15_RemainderParsed ==
    /\ (cur.op = "read_many" /\ cpc = "read_many") =>
            EncodeAll(responseAcc) \o Pending(parser) \o wire = EncodeAll(stream)
    /\ ReadAll(TRUE) => ReturnedAsSent

C15_Witness ==
    /\ cur.op = "read_many"
    /\ cpc = "idle"
    /\ Len(results) = 1
    /\ results[1].res = "Ok"
    /\ Len(results[1].replies) = 2
    /\ Len(iolog) = 1

\* The replies the call asked for: one for read, num for read_many.
Asked(r) == IF r.op = "read" THEN 1 ELSE r.num

\* C16: a call that failed returned no reply; a read or read_many whose
\* first byte breaks the grammar, or that asked for more replies than the
\* peer sent before it closed, returns Error::UnparseableReply and no reply
\* (unless the transport failed); a read that returned Ok returned a whole
\* reply.
C16_FailureReturnsNothing ==
    /\ \A i \in ResultIndex : results[i].res # "Ok" => results[i].replies = <<>>
    /\ (results # <<>> /\ results[1].op \in {"read", "read_many"}
            /\ results[1].res # "Io") =>
          /\ (stream # <<>> /\ ~IsReply(stream[1])) =>
                results[1].res = "UnparseableReply"
          /\ (AllReplies(stream) /\ Asked(results[1]) > Len(stream)) =>
                results[1].res = "UnparseableReply"
          /\ (results[1].op = "read" /\ results[1].res = "Ok") =>
                results[1].replies = <<stream[1]>>

C16_Witness ==
    /\ results # <<>>
    /\ results[1].op = "read_many"
    /\ results[1].num = 2
    /\ results[1].parsed = 1
    /\ peerClosed
    /\ results[1].res = "UnparseableReply"
    /\ results[1].replies = <<>>

\* C17: a cmd or cmds call whose write, flush or read failed returns that
\* error, and it failed before the deadline; the call returns Error::Timeout
\* only when the deadline elapsed before its body completed.
C17_ErrorsPassThrough ==
    \A i \in ResultIndex : Timed(results[i]) =>
        /\ results[i].inner \in {"Io", "UnparseableReply"} =>
              (results[i].res = results[i].inner /\ results[i].at < Timeout)
        /\ results[i].res = "Timeout" =>
              (results[i].inner = "Elapsed" /\ results[i].at >= Timeout)

C17_Witness ==
    \E i \in ResultIndex :
        /\ results[i].op = "cmds"
        /\ results[i].at >= 1
        /\ results[i].parsed = 1
        /\ results[i].res = "UnparseableReply"

\* C18: a call of read starts with a fresh cursor; the cursor is kept from
\* chunk to chunk (no byte read so far is lost while read waits for the
\* next chunk); and the first read returns the first reply the peer sent
\* however its bytes are split into chunks.
C18_FreshCursor ==
    /\ (cpc = "read" /\ \A i \in 1..Len(iolog) : iolog[i].k # "read") =>
            parser = ParserDefault
    /\ (cur.op = "read" /\ cpc = "read" /\ results = <<>>) =>
            Pending(parser) \o wire = EncodeAll(stream)
    /\ (results # <<>> /\ results[1].op = "read" /\ stream # <<>>
            /\ IsReply(stream[1]) /\ results[1].res # "Io") =>
          (results[1].res = "Ok" /\ results[1].replies = <<stream[1]>>)

C18_Witness ==
    /\ Len(results) = 2
    /\ results[1].op = "read"
    /\ results[1].res = "UnparseableReply"
    /\ results[2].op = "read"
    /\ results[2].res = "Ok"
    /\ results[2].replies = <<Reply("5", <<"a">>)>>
    /\ Len(iolog) >= 2

\* The peer's replies to the commands ids, in order.
RepliesTo(ids) == [k \in 1..Len(ids) |-> ReplyFor(ids[k])]

AllOkUpTo(i) == \A j \in 1..i : results[j].res = "Ok"

\* C20 (as stated): every call that returns replies returns exactly the
\* replies to the commands it sent, in send order, whatever calls were made
\* on the session before.
C20_AlwaysInSync ==
    \A i \in ResultIndex :
        results[i].res = "Ok" => results[i].replies = RepliesTo(results[i].cmds)

\* C20 (amended): as long as every call so far returned Ok, a call returns
\* exactly the replies to the commands it sent, in send order, and between
\* two calls no reply is on the wire or still to come.
C20_InSyncWhileOk ==
    /\ \A i \in ResultIndex :
          AllOkUpTo(i) => results[i].replies = RepliesTo(results[i].cmds)
    /\ (cpc = "idle" /\ AllOkUpTo(Len(results))) =>
            (wire = <<>> /\ unanswered = <<>>)

C20_Witness ==
    /\ Len(results) = 2
    /\ results[1].op = "cmds"
    /\ results[1].res = "Ok"
    /\ Len(results[1].replies) = 2
    /\ results[2].op = "cmd"
    /\ results[2].res = "Ok"
    /\ results[2].replies = <<ReplyFor(3)>>

----------------------------------------------------------------------------
(* write_message: the transparency procedure *)

CR == "CR"
DOT == "."

\* The bytes a body is made of: the line boundary bytes, the period, and a
\* byte that is neither.
BodyBytes == {CR, LF, DOT, "a"}
Bodies == UNION {[1..n -> BodyBytes] : n \in 0..MaxBody}

\* The end of the message data: CR LF "." CR LF.
Terminator == <<CR, LF, DOT, CR, LF>>

\* Every line boundary written as CR LF: a CR with the LF that follows it,
\* a bare CR and a bare LF each become CR LF.
RECURSIVE Normalize(_)
Normalize(s) ==
    IF s = <<>> THEN <<>>
    ELSE IF Head(s) = CR THEN
        <<CR, LF>> \o Normalize(IF Len(s) >= 2 /\ s[2] = LF THEN Tail(Tail(s)) ELSE Tail(s))
    ELSE IF Head(s) = LF THEN <<CR, LF>> \o Normalize(Tail(s))
    ELSE <<Head(s)>> \o Normalize(Tail(s))

RECURSIVE StuffAfterLineFeedOnly(_, _)
StuffAfterLineFeedOnly(message, atLineStart) ==
    IF message = <<>> THEN <<>>
    ELSE (IF Head(message) = DOT /\ atLineStart THEN <<DOT, DOT>>
          ELSE <<Head(message)>>)
            \o StuffAfterLineFeedOnly(Tail(message), Head(message) = LF)

RECURSIVE StuffEveryPeriod(_, _)
StuffEveryPeriod(message, atLineStart) ==
    IF message = <<>> THEN <<>>
    ELSE (IF Head(message) = DOT THEN <<DOT, DOT>> ELSE <<Head(message)>>)
            \o StuffEveryPeriod(Tail(message), Head(message) \in {CR, LF})

\* The body with a period put before every period that begins a line.  A
\* line begins after a CR or an LF (so after CRLF, a bare CR and a bare LF)
\* and, when atLineStart, at the first byte.  Every other byte is copied
\* as it is.
RECURSIVE Stuff(_, _)
Stuff(message, atLineStart) ==
    IF message = <<>> THEN <<>>
    ELSE (IF Head(message) = DOT /\ atLineStart THEN <<DOT, DOT>>
          ELSE <<Head(message)>>)
            \o Stuff(Tail(message), Head(message) \in {CR, LF})

WriteMessageFirstLineUnescaped(message) == Stuff(message, FALSE) \o Terminator

WriteMessageNormalized(message) == Stuff(Normalize(message), TRUE) \o Terminator

\* write_message(message): the escaped body, then the terminator.
write_message(message) == Stuff(message, TRUE) \o Terminator

\* The cases of test::transparency_procedure, with "A: b", "A: " and
\* "MAIL FROM:<>" each written as the byte "a".
TransparencyProcedureTest ==
    /\ write_message(<<"a", CR, LF, DOT, CR, LF>>)
         = <<"a", CR, LF, DOT, DOT, CR, LF, CR, LF, DOT, CR, LF>>
    /\ write_message(<<"a", CR, LF, DOT>>)
         = <<"a", CR, LF, DOT, DOT, CR, LF, DOT, CR, LF>>
    /\ write_message(<<"a", CR, LF, DOT, DOT, CR, LF>>)
         = <<"a", CR, LF, DOT, DOT, DOT, CR, LF, CR, LF, DOT, CR, LF>>
    /\ write_message(<<"a", DOT, DOT, DOT, "a">>)
         = <<"a", DOT, DOT, DOT, "a", CR, LF, DOT, CR, LF>>
    /\ write_message(<<"a", LF, DOT, CR, LF, "a">>)
         = <<"a", LF, DOT, DOT, CR, LF, "a", CR, LF, DOT, CR, LF>>
    /\ write_message(<<"a", CR, DOT, CR, LF, "a">>)
         = <<"a", CR, DOT, DOT, CR, LF, "a", CR, LF, DOT, CR, LF>>

InitEnc ==
    /\ ConnectIdle
    /\ ClientIdle
    /\ body \in Bodies
    /\ output = <<>>
    /\ epc = "start"

\* client.write_message(test.as_bytes()).await
WriteMessage ==
    /\ epc = "start"
    /\ output' = write_message(body)
    /\ epc' = "done"
    /\ UNCHANGED body
    /\ UNCHANGED <<cvars, svars>>

NextEnc == WriteMessage

SpecEnc == InitEnc /\ [][NextEnc]_vars

----------------------------------------------------------------------------
(* Properties of write_message *)

EndsWithTerminator(o) ==
    Len(o) >= Len(Terminator)
        /\ SubSeq(o, Len(o) - Len(Terminator) + 1, Len(o)) = Terminator

\* The CRLF-delimited line of o that begins at position i is ".".
DotLineAt(o, i) ==
    /\ o[i] = DOT
    /\ i = 1 \/ (i >= 3 /\ o[i - 2] = CR /\ o[i - 1] = LF)
    /\ i + 2 <= Len(o)
    /\ o[i + 1] = CR
    /\ o[i + 2] = LF

\* C10: the output of write_message ends with CR LF "." CR LF, its only
\* CRLF-delimited line equal to "." is the line of that terminator, and an
\* empty body yields exactly the terminator.
C10_OnlyTerminator ==
    epc = "done" =>
        /\ EndsWithTerminator(output)
        /\ \A i \in 1..Len(output) : DotLineAt(output, i) => i = Len(output) - 2
        /\ body = <<>> => output = Terminator

C10_Witness ==
    /\ epc = "done"
    /\ Len(body) >= 2
    /\ body[1] = DOT
    /\ body[2] = CR

\* The CR and LF bytes of s, in order.
LineBytes(s) == SelectSeq(s, LAMBDA b : b \in {CR, LF})

\* C11 (as stated): the output of write_message has no CR that is not
\* followed by LF and no LF that is not preceded by CR.
C11_OutputOnlyCRLF ==
    epc = "done" =>
        \A i \in 1..Len(output) :
            /\ output[i] = CR => (i < Len(output) /\ output[i + 1] = LF)
            /\ output[i] = LF => (i > 1 /\ output[i - 1] = CR)

\* C11 (amended): write_message copies the line boundary bytes of the body
\* as they are: the CR and LF bytes of the output are those of the body, in
\* order, followed by the two CR LF of the terminator.
C11_BoundariesCopied ==
    epc = "done" => LineBytes(output) = LineBytes(body) \o <<CR, LF, CR, LF>>

C11_Witness ==
    /\ epc = "done"
    /\ \E i \in 1..Len(body) : body[i] = LF /\ (i = 1 \/ body[i - 1] # CR)
    /\ \E j \in 1..Len(body) : body[j] = CR /\ (j = Len(body) \/ body[j + 1] # LF)

\* Position i of b begins a line: it is the first position or follows a CR
\* or an LF (so it follows CRLF, a bare CR or a bare LF).
LineStart(b, i) == i = 1 \/ b[i - 1] \in {CR, LF}
LeadingPeriod(b, i) == b[i] = DOT /\ LineStart(b, i)
PeriodsAddedBefore(b, i) == Cardinality({j \in 1..(i - 1) : LeadingPeriod(b, j)})

\* C12: write_message puts exactly one more period before every period of
\* the body that begins a line (at the start of the body, after CRLF, after
\* a bare CR, after a bare LF) and copies every other byte once, also in the
\* lines that follow a CR LF "." CR LF inside the body.
C12_LeadingPeriodDoubled ==
    epc = "done" =>
        /\ Len(output) = Len(body) + PeriodsAddedBefore(body, Len(body) + 1)
                            + Len(Terminator)
        /\ \A i \in 1..Len(body) :
              LET p == i + PeriodsAddedBefore(body, i) IN
              IF LeadingPeriod(body, i)
              THEN output[p] = DOT /\ output[p + 1] = DOT
              ELSE output[p] = body[i]

C12_Witness ==
    /\ epc = "done"
    /\ Len(body) = 6
    /\ SubSeq(body, 1, 5) = Terminator
    /\ body[6] = DOT
    /\ output = <<CR, LF, DOT, DOT, CR, LF, DOT, DOT>> \o Terminator

\* The receiver's side: one period is removed from every line that begins
\* with a period, lines being delimited as in the encoder.
RECURSIVE Unstuff(_, _)
Unstuff(o, atLineStart) ==
    IF o = <<>> THEN <<>>
    ELSE IF Head(o) = DOT /\ atLineStart THEN Unstuff(Tail(o), FALSE)
    ELSE <<Head(o)>> \o Unstuff(Tail(o), Head(o) \in {CR, LF})

WithoutTerminator(o) == SubSeq(o, 1, Len(o) - Len(Terminator))

\* C13: removing the final terminator from the output of write_message and
\* one leading period from every line that begins with a period gives back
\* the body up to the writing of its line boundaries as CR LF.
C13_RoundTrip ==
    epc = "done" =>
        /\ EndsWithTerminator(output)
        /\ Normalize(Unstuff(WithoutTerminator(output), TRUE)) = Normalize(body)

C13_Witness ==
    /\ epc = "done"
    /\ \E i \in 1..(Len(body) - 1) : body[i] = CR /\ body[i + 1] = DOT
    /\ \E i \in 1..(Len(body) - 1) : body[i] = "a" /\ body[i + 1] = DOT
    /\ Normalize(body) # body
    /\ Unstuff(WithoutTerminator(output), TRUE) = body

====
